---- MODULE Spec2Model ----
(***************************************************************************)
(* The live-preview coordinator of tools/lsp/preview.rs: the ContentCache  *)
(* behind CONTENT_CACHE, the reload state machine of load_preview, the     *)
(* compile driver reload_preview_impl, the highlight bridge and the        *)
(* selection engine (select_element_at, select_element_into).              *)
(*                                                                         *)
(* Every action is one critical section of the source (one hold of the     *)
(* CONTENT_CACHE mutex) together with the lock-free code around it that    *)
(* runs on the same thread.  Callers that read the cache, drop the lock    *)
(* and then call load_preview are two steps: the copy they hold in         *)
(* between is kept in `calls`.                                             *)
(***************************************************************************)
EXTENDS Integers, FiniteSets, Sequences, Bags, TLC

\* ------------------------------------------------------------------ bounds

\* Number of worker futures the model can hold at once (the code has no limit).
MaxWorkers == 2
\* Number of callers that can sit between dropping the lock and load_preview.
MaxCalls == 1
\* Cap of the count of compiles started since the last request.
MaxStarts == 2
\* The pointer's coordinates run over 0..MaxCoord.
MaxCoord == 2
\* The columns the syntax tree reports run over 0..MaxCol.
MaxCol == 2

\* ------------------------------------------------------------------ values

\* PathBuf::default(): as_os_str().is_empty()
NoPath == ""
Paths == {"a.ui", "b.ui"}
Texts == {"X", "Y"}
\* Option::None, and the marks of the read log
None == "None"
Miss == "Miss"
Unread == "Unread"

\* PreviewComponent::default()
DefaultComponent == [path |-> NoPath, component |-> None, style |-> ""]
\* The requests the editor issues: a file, an optional component, an optional style.
Requests ==
    { [path |-> "a.ui", component |-> None, style |-> ""],
      [path |-> "b.ui", component |-> "Main", style |-> "fluent"] }
\* Highlight: None, or a path and an offset
NoHighlight == [path |-> None, offset |-> 0]
\* The preview area before the first successful compile
NoArtifact == [path |-> NoPath, component |-> None, text |-> Unread]
\* PreviewConfig values (hide_ui: Option<bool>)
DefaultConfig == [hide_ui |-> None]
Configs == { DefaultConfig, [hide_ui |-> "true"] }
Offsets == {0, 1}
\* The elements of a scene: the root of the component, its children e1 and
\* e2, a child e3 of e1, and the root element `sub` of a sub-component.
Elements == {"root", "e1", "e2", "e3", "sub"}
\* The pointer positions tried: the diagonal of the grid.
Coords == 0..MaxCoord
Points == { << c, c >> : c \in Coords }
\* Option<LogicalRect> values of element_position: None and three rectangles
NoPosition == [some |-> FALSE, x |-> 0, y |-> 0, w |-> 0, h |-> 0]
RectA == [some |-> TRUE, x |-> 0, y |-> 0, w |-> 2, h |-> 2]
RectB == [some |-> TRUE, x |-> 1, y |-> 1, w |-> 2, h |-> 2]
RectC == [some |-> TRUE, x |-> 0, y |-> 2, w |-> 3, h |-> 1]
\* An element without a syntax node (see SyntaxNode)
NoNode ==
    [some |-> FALSE, file |-> "", range |-> 0,
     pos |-> [sl |-> 0, sc |-> 0, el |-> 0, ec |-> 0],
     parent |-> None,
     parent_pos |-> [sl |-> 0, sc |-> 0, el |-> 0, ec |-> 0]]
\* Option<(PathBuf, u32)> of element_offset: None
NoOffset == [some |-> FALSE, path |-> NoPath, offset |-> 0]
\* Option<(SourceFile, TextRange)> of element_source_range: None
NoSourceRange == [some |-> FALSE, file |-> "", range |-> 0]
\* No component instance: component_instance() is None
NoScene == [instance |-> FALSE]
\* selected_element() is None
NoSelection == [element |-> None]
\* The file names of syntax nodes: none, an absolute path, a path that is
\* not absolute (a built-in widget's file).
Files == {"", "/w/a.ui", "builtin:/button.slint"}
AbsoluteFiles == {"/w/a.ui"}
Cols == 0..MaxCol
\* (String, lsp_types::Range)::default()
DefaultDocumentPosition ==
    [file |-> "", start |-> [line |-> 0, character |-> 0],
     end |-> [line |-> 0, character |-> 0]]
\* Option<ShowDocumentParams>: None
NoRequest ==
    [some |-> FALSE, uri |-> "",
     selection |-> [start |-> [line |-> 0, character |-> 0],
                    end |-> [line |-> 0, character |-> 0]]]

Workers == 1..MaxWorkers

\* ------------------------------------------------------------------- state

VARIABLES
    \* ContentCache
    cache_init,     \* CONTENT_CACHE has been initialised (OnceLock)
    source_code,    \* path -> text, None when absent
    dependency,     \* set of paths
    current,        \* PreviewComponent
    config,         \* PreviewConfig
    loading_state,  \* PreviewFutureState
    highlight,      \* NoHighlight or a path and an offset
    ui_is_visible,
    \* the futures handed to run_in_ui_thread: position and locals of each
    workers,
    \* copies of `current` held by callers between drop(cache) and load_preview
    calls,
    \* the UI side
    rendered,       \* the artifact shown in the preview area
    status,         \* the last send_status
    show_preview_ui,\* the last set_show_preview_ui, None at first
    current_style,  \* get_current_style()
    factory,        \* a factory set by set_preview_factory awaits instantiation
    marks,          \* the argument of the last update_highlight
    \* the selection engine
    scene,          \* the compiled scene and the geometry of its instance
    selected,       \* selected_element() and its overlay
    panicked,       \* an assert_eq!/unreachable!() of the worker fired
    \* history
    read,           \* what the compile in progress (or the last one) read, per path
    hist,           \* the last request and what followed it (see NoHistory)
    last            \* the step taken last, with what it did

vars == << cache_init, source_code, dependency, current, config, loading_state,
           highlight, ui_is_visible, workers, calls, rendered, status,
           show_preview_ui, current_style, factory, marks, scene, selected,
           panicked, read, hist, last >>

cacheVars == << source_code, dependency, current, config, loading_state,
                highlight, ui_is_visible >>
uiVars == << rendered, status, show_preview_ui, current_style, factory, marks >>
selVars == << scene, selected >>

\* A future's locals: where it is and the preview_component it took (the config
\* and the style it hands to the compiler do not come back into the state).
Dead == [pc |-> "dead", component |-> DefaultComponent]

\* latest: the argument of the last load_preview; from: the loading_state that
\* call found; hidden: the UI was not visible at that call or at some point
\* since; starts: the compiles started since that call; snapshot: the
\* preview_component the last compile started from.
NoHistory == [latest |-> DefaultComponent, from |-> "Pending", hidden |-> TRUE,
              starts |-> 0, snapshot |-> DefaultComponent]

\* `last` after a step whose outcome no property reads.
Quiet == [op |-> "quiet"]

Init ==
    /\ cache_init = FALSE
    /\ source_code = [p \in Paths |-> None]
    /\ dependency = {}
    /\ current = DefaultComponent
    /\ config = DefaultConfig
    /\ loading_state = "Pending"
    /\ highlight = NoHighlight
    /\ ui_is_visible = FALSE
    /\ workers = [w \in Workers |-> Dead]
    /\ calls = EmptyBag
    /\ rendered = NoArtifact
    /\ status = [message |-> "", health |-> "Ok"]
    /\ show_preview_ui = None
    /\ current_style = ""
    /\ factory = FALSE
    /\ marks = NoHighlight
    /\ scene = NoScene
    /\ selected = NoSelection
    /\ panicked = FALSE
    /\ read = [p \in Paths |-> Unread]
    /\ hist = NoHistory
    /\ last = Quiet

\* ------------------------------------------------------------ load_preview

Alive(w) == workers[w].pc # "dead"
AliveWorkers == { w \in Workers : Alive(w) }
MinOf(S) == CHOOSE x \in S : \A y \in S : x <= y

\* load_preview's match with the NeedsReload arm taking the mark back.
LoadPreviewNextState_Toggle(s) ==
    CASE s = "Pending" -> "PreLoading"
      [] s = "PreLoading" -> "PreLoading"
      [] s = "Loading" -> "NeedsReload"
      [] s = "NeedsReload" -> "Loading"

\* load_preview's match without the Loading arm's mark: a request that arrives
\* during a compile leaves the state Loading.
LoadPreviewNextState_NoStale(s) ==
    IF s = "Pending" THEN "PreLoading" ELSE s

\* The match on cache.loading_state in load_preview: the next state.
LoadPreviewNextState(s) ==
    CASE s = "Pending" -> "PreLoading"
      [] s = "PreLoading" -> "PreLoading"
      [] s = "Loading" -> "NeedsReload"
      [] s = "NeedsReload" -> "NeedsReload"

\* load_preview's match with the PreLoading arm falling through like Pending.
LoadPreviewSpawns_Scheduled(visible, s) ==
    visible /\ s \in {"Pending", "PreLoading"}

\* Whether load_preview falls through the match to run_in_ui_thread.
LoadPreviewSpawns(visible, s) == visible /\ s = "Pending"

\* run_in_ui_thread(...): a new future, waiting at the top of its loop.
Spawn(ws) ==
    IF { w \in Workers : ws[w].pc = "dead" } = {}
    THEN ws
    ELSE [ws EXCEPT ![MinOf({ w \in Workers : ws[w].pc = "dead" })] =
              [Dead EXCEPT !.pc = "queued"]]

\* load_preview without the visibility check.
PastVisibilityCheck_Always == TRUE

\* Whether load_preview goes past the visibility check of line 307.
PastVisibilityCheck == ui_is_visible

\* load_preview(preview_component): the locked block and the hand-over to the
\* UI thread.
load_preview_impl(preview_component) ==
    /\ cache_init' = TRUE
    /\ current' = preview_component
    /\ loading_state' = IF PastVisibilityCheck
                        THEN LoadPreviewNextState(loading_state)
                        ELSE loading_state
    /\ workers' = IF LoadPreviewSpawns(PastVisibilityCheck, loading_state)
                  THEN Spawn(workers) ELSE workers
    /\ hist' = [hist EXCEPT !.latest = preview_component, !.from = loading_state,
                            !.hidden = ~ui_is_visible, !.starts = 0]

\* load_preview called by the editor with a request of its own.
load_preview(r) ==
    /\ ~panicked
    /\ UNCHANGED selVars
    /\ load_preview_impl(r)
    /\ last' = [op |-> "load_preview", visible |-> ui_is_visible]
    /\ UNCHANGED << source_code, dependency, config, highlight, ui_is_visible,
                    calls, uiVars, panicked, read >>

\* ------------------------------------------------- the worker's loop

NoReads == [p \in Paths |-> Unread]

\* The top of the loop without cache.dependency.clear().
DependenciesAtStart_Kept(deps) == deps

\* cache.dependency.clear(), line 332: the dependencies a compile starts with.
DependenciesAtStart(deps) == {}

\* Lines 324-342: the top of the loop, under the lock, and the choice of the
\* style right after it.
WorkerTop(w) ==
    /\ ~panicked
    /\ UNCHANGED selVars
    /\ workers[w].pc = "queued"
    /\ IF loading_state # "PreLoading"
       THEN \* assert_eq!(cache.loading_state, PreviewFutureState::PreLoading)
            /\ panicked' = TRUE
            /\ workers' = [workers EXCEPT ![w] = Dead]
            /\ last' = [op |-> "panic", at |-> "assert_eq"]
            /\ UNCHANGED << cacheVars, uiVars, read, hist >>
       ELSE IF ~ui_is_visible
       THEN /\ loading_state' = "Pending"
            /\ workers' = [workers EXCEPT ![w] = Dead]
            /\ last' = Quiet
            /\ UNCHANGED << source_code, dependency, current, config, highlight,
                            ui_is_visible, uiVars, panicked, read, hist >>
       ELSE /\ loading_state' = "Loading"
            /\ dependency' = DependenciesAtStart(dependency)
            /\ current' = [current EXCEPT !.style = ""]
            /\ current_style' = IF current.style = "" THEN current_style
                                ELSE current.style
            /\ workers' = [workers EXCEPT ![w] =
                   [pc |-> "start", component |-> current]]
            /\ read' = NoReads
            /\ hist' = [hist EXCEPT !.snapshot = current,
                           !.starts = IF @ < MaxStarts THEN @ + 1 ELSE @]
            /\ last' = [op |-> "compile_start", dropped |-> dependency]
            /\ UNCHANGED << source_code, config, highlight, ui_is_visible,
                            rendered, status, show_preview_ui, factory, marks,
                            panicked >>
    /\ UNCHANGED << cache_init, calls >>

\* get_file_from_cache(path): the text if cached, and the path a dependency
\* either way.  `read` logs what the lookup returned.
get_file_from_cache(path) ==
    /\ dependency' = dependency \cup {path}
    /\ read' = [read EXCEPT ![path] =
                   IF source_code[path] = None THEN Miss ELSE source_code[path]]

\* start_parsing()
start_parsing == status' = [message |-> "Loading Preview", health |-> "Ok"]

\* finish_parsing(ok)
finish_parsing(ok) ==
    status' = IF ok THEN [message |-> "Preview Loaded", health |-> "Ok"]
              ELSE [message |-> "Preview not updated", health |-> "Error"]

\* The artifact a compile of `component` produces: what was asked for (the
\* style travels apart, line 369) and the text of the main file it read.
Artifact(component) ==
    [path |-> component.path, component |-> component.component,
     text |-> read[component.path]]

\* reload_preview_impl, lines 369-392: start_parsing and the lookup of the
\* main file.
CompileBegin(w) ==
    /\ ~panicked
    /\ UNCHANGED selVars
    /\ UNCHANGED hist
    /\ workers[w].pc = "start"
    /\ start_parsing
    /\ get_file_from_cache(workers[w].component.path)
    /\ workers' = [workers EXCEPT ![w].pc = "building"]
    /\ last' = Quiet
    /\ UNCHANGED << cache_init, source_code, current, config, loading_state,
                    highlight, ui_is_visible, calls, rendered, show_preview_ui,
                    current_style, factory, marks, panicked >>

\* The file loader handed to the compiler (lines 387-390): the compiler asks
\* for one more file.
CompileRead(w, path) ==
    /\ ~panicked
    /\ UNCHANGED selVars
    /\ UNCHANGED hist
    /\ workers[w].pc = "building"
    /\ read[path] = Unread
    /\ get_file_from_cache(path)
    /\ last' = Quiet
    /\ UNCHANGED << cache_init, source_code, current, config, loading_state,
                    highlight, ui_is_visible, workers, calls, uiVars, panicked >>

\* reload_preview_impl handing the compiler's answer to the preview area
\* whether or not there is a component in it.
Publish_Blanking(w, ok) ==
    /\ rendered' = IF ok THEN Artifact(workers[w].component) ELSE NoArtifact
    /\ factory' = (ok \/ factory)
    /\ finish_parsing(ok)

\* What reload_preview_impl does with the compiler's answer (lines 405-410):
\* update_preview_area hands the component to the preview area, which is set
\* up by set_preview_factory with a factory for it (lines 424-437).
Publish(w, ok) ==
    /\ rendered' = IF ok THEN Artifact(workers[w].component) ELSE rendered
    /\ factory' = (ok \/ factory)
    /\ finish_parsing(ok)

\* reload_preview_impl, lines 403-410: the compiler has answered.
CompileFinish(w, ok) ==
    /\ ~panicked
    /\ UNCHANGED selVars
    /\ UNCHANGED hist
    /\ workers[w].pc = "building"
    /\ Publish(w, ok)
    /\ workers' = [workers EXCEPT ![w].pc = "finished"]
    /\ last' = [op |-> "compile_finish", ok |-> ok,
                stale |-> (loading_state = "NeedsReload")]
    /\ UNCHANGED << cache_init, cacheVars, calls, show_preview_ui, current_style,
                    marks, panicked, read >>

\* Lines 346-358: the match on the state once the compile has returned.
WorkerAfter(w) ==
    /\ ~panicked
    /\ UNCHANGED selVars
    /\ UNCHANGED hist
    /\ workers[w].pc = "finished"
    /\ CASE loading_state = "Loading" ->
              /\ loading_state' = "Pending"
              /\ workers' = [workers EXCEPT ![w] = Dead]
              /\ last' = Quiet
              /\ UNCHANGED panicked
         [] loading_state = "NeedsReload" ->
              /\ loading_state' = "PreLoading"
              /\ workers' = [workers EXCEPT ![w] = [Dead EXCEPT !.pc = "queued"]]
              /\ last' = Quiet
              /\ UNCHANGED panicked
         [] OTHER -> \* unreachable!()
              /\ panicked' = TRUE
              /\ workers' = [workers EXCEPT ![w] = Dead]
              /\ last' = [op |-> "panic", at |-> "unreachable"]
              /\ UNCHANGED loading_state
    /\ UNCHANGED << cache_init, source_code, dependency, current, config,
                    highlight, ui_is_visible, calls, uiVars, read >>

\* ------------------------------------ callers that re-issue the request

\* `ui_is_visible && !current.path.as_os_str().is_empty()`
Reissues == ui_is_visible /\ current.path # NoPath

\* The caller has dropped the lock and holds a copy of `current`.
HoldCopy(yes) ==
    /\ yes => BagCardinality(calls) < MaxCalls
    /\ calls' = IF yes THEN calls (+) SetToBag({current}) ELSE calls

\* set_contents without the dependency check of line 71.
SetContentsChanged_AnyPath(path, content) ==
    source_code[path] # content

\* set_contents without the comparison with the old text of lines 72-76.
SetContentsChanged_NoCompare(path, content) ==
    path \in dependency

\* set_contents going on to the reload only when it replaces a cached text.
SetContentsChanged_CachedOnly(path, content) ==
    path \in dependency /\ source_code[path] # None /\ source_code[path] # content

\* set_contents, lines 71-76: the path is a dependency and the text differs
\* from the cached one.
SetContentsChanged(path, content) ==
    path \in dependency /\ source_code[path] # content

\* set_contents(path, content), lines 69-81.
set_contents(path, content) ==
    /\ ~panicked
    /\ UNCHANGED selVars
    /\ UNCHANGED hist
    /\ cache_init' = TRUE
    /\ source_code' = [source_code EXCEPT ![path] = content]
    /\ HoldCopy(SetContentsChanged(path, content) /\ Reissues)
    /\ last' = [op |-> "set_contents", path |-> path,
                dep |-> (path \in dependency),
                first |-> (source_code[path] = None),
                changed |-> (source_code[path] # content),
                reload |-> (SetContentsChanged(path, content) /\ Reissues)]
    /\ UNCHANGED << dependency, current, config, loading_state, highlight,
                    ui_is_visible, workers, uiVars, panicked, read >>

\* change_style(), lines 246-251.
change_style ==
    /\ ~panicked
    /\ UNCHANGED selVars
    /\ UNCHANGED hist
    /\ cache_init' = TRUE
    /\ HoldCopy(Reissues)
    /\ last' = Quiet
    /\ UNCHANGED << cacheVars, workers, uiVars, panicked, read >>

\* config_changed(config), lines 272-286.
config_changed(c) ==
    /\ ~panicked
    /\ UNCHANGED selVars
    /\ UNCHANGED hist
    /\ cache_init
    /\ config # c
    /\ config' = c
    /\ show_preview_ui' = IF ui_is_visible /\ c.hide_ui # None
                          THEN (IF c.hide_ui = "true" THEN "false" ELSE "true")
                          ELSE show_preview_ui
    /\ HoldCopy(Reissues)
    /\ last' = Quiet
    /\ UNCHANGED << cache_init, source_code, dependency, current, loading_state,
                    highlight, ui_is_visible, workers, rendered, status,
                    current_style, factory, marks, panicked, read >>

\* The second half of set_contents (line 82), change_style (line 252) and
\* config_changed (line 287): load_preview with the copy taken before.
Reissue(c) ==
    /\ ~panicked
    /\ UNCHANGED selVars
    /\ BagIn(c, calls)
    /\ calls' = calls (-) SetToBag({c})
    /\ load_preview_impl(c)
    /\ last' = [op |-> "load_preview", visible |-> ui_is_visible]
    /\ UNCHANGED << source_code, dependency, config, highlight, ui_is_visible,
                    uiVars, panicked, read >>

\* ----------------------------------------------------------- visibility

\* The preview window is closed: ui_is_visible goes off.
HideUi ==
    /\ ~panicked
    /\ UNCHANGED selVars
    /\ ui_is_visible
    /\ cache_init' = TRUE
    /\ ui_is_visible' = FALSE
    /\ hist' = [hist EXCEPT !.hidden = TRUE]
    /\ last' = Quiet
    /\ UNCHANGED << source_code, dependency, current, config, loading_state,
                    highlight, workers, calls, uiVars, panicked, read >>

\* The preview window is opened: ui_is_visible goes on, and a request is made
\* from the stored `current` to catch up.
ShowUi ==
    /\ ~panicked
    /\ UNCHANGED selVars
    /\ UNCHANGED hist
    /\ ~ui_is_visible
    /\ cache_init' = TRUE
    /\ ui_is_visible' = TRUE
    /\ HoldCopy(current.path # NoPath)
    /\ last' = Quiet
    /\ UNCHANGED << source_code, dependency, current, config, loading_state,
                    highlight, workers, uiVars, panicked, read >>

\* ------------------------------------------------------------ highlight

\* Option<(PathBuf, u32)> of a call's arguments (line 443).
HighlightOf(path, offset) ==
    IF path = None THEN NoHighlight ELSE [path |-> path, offset |-> offset]

\* highlight without the early return of lines 446-448.
HighlightMarks_NoEarlyReturn(path, offset) ==
    path = None \/ path \in dependency

\* highlight without the test of line 451.
HighlightMarks_NoDependencyCheck(path, offset) ==
    highlight # HighlightOf(path, offset)

\* Whether highlight(path, offset) reaches update_highlight: not on the early
\* return of line 446, and then only for None or a dependency (line 451).
HighlightMarks(path, offset) ==
    /\ highlight # HighlightOf(path, offset)
    /\ (path = None \/ path \in dependency)

\* The body of highlight(path, offset), lines 443-454: the stored highlight,
\* and update_highlight(path, offset) when the call gets that far.
highlight_impl(path, offset) ==
    /\ highlight' = IF highlight = HighlightOf(path, offset) THEN highlight
                    ELSE HighlightOf(path, offset)
    /\ marks' = IF HighlightMarks(path, offset) THEN HighlightOf(path, offset)
                ELSE marks

\* highlight(path, offset), lines 442-455, path None or a path.
do_highlight(path, offset) ==
    /\ ~panicked
    /\ UNCHANGED selVars
    /\ cache_init' = TRUE
    /\ highlight_impl(path, offset)
    /\ last' = [op |-> "highlight", path |-> path, offset |-> offset,
                repeat |-> (highlight = HighlightOf(path, offset)),
                marked |-> HighlightMarks(path, offset)]
    /\ UNCHANGED << source_code, dependency, current, config, loading_state,
                    ui_is_visible, workers, calls, rendered, status,
                    show_preview_ui, current_style, factory, panicked, read,
                    hist >>

\* The factory closure of set_preview_factory, lines 424-436: the preview
\* area creates the instance of the component it was given; the closure reads
\* the stored highlight and, when there is one, calls highlight with it.  The
\* new instance carries no mark of its own.
FactoryInstantiate ==
    /\ ~panicked
    /\ UNCHANGED selVars
    /\ factory
    /\ factory' = FALSE
    /\ IF highlight # NoHighlight
       THEN highlight_impl(highlight.path, highlight.offset)
       ELSE UNCHANGED << highlight, marks >>
    /\ last' = [op |-> "instantiate",
                marked |-> (/\ highlight # NoHighlight
                            /\ HighlightMarks(highlight.path, highlight.offset))]
    /\ UNCHANGED << cache_init, source_code, dependency, current, config,
                    loading_state, ui_is_visible, workers, calls, rendered,
                    status, show_preview_ui, current_style, panicked, read,
                    hist >>

\* ------------------------------------------------------ selection engine

\* The syntax node of an element: its source file, the start of its text
\* range, what text_size_to_file_line_column gives for that start (sl, sc,
\* el, ec), the kind of its parent node and the same four numbers for the
\* start of the parent's range.
SyntaxNode(file, range, sl, sc, el, ec, parent, psc, pec) ==
    [some |-> TRUE, file |-> file, range |-> range,
     pos |-> [sl |-> sl, sc |-> sc, el |-> el, ec |-> ec],
     parent |-> parent,
     parent_pos |-> [sl |-> 1, sc |-> psc, el |-> 2, ec |-> pec]]

\* LogicalRect::contains: the origin is inside, the far edges are not.
Contains(rect, point) ==
    /\ rect.x <= point[1]
    /\ point[1] < rect.x + rect.w
    /\ rect.y <= point[2]
    /\ point[2] < rect.y + rect.h

\* component_instance.element_position(element)
element_position(element) == scene.geometry[element]

\* self_or_embedded_component_root without the jump to the sub-component.
self_or_embedded_component_root_NoJump(element) == element

\* self_or_embedded_component_root, lines 88-96: a repeated element whose
\* base type is a component stands for that component's root element.
self_or_embedded_component_root(element) ==
    IF scene.repeated[element] /\ scene.base[element] # None
    THEN scene.base[element]
    ELSE element

\* u32::saturating_sub(1)
SaturatingSub1(n) == IF n = 0 THEN 0 ELSE n - 1

\* lsp_element_position, lines 98-118: the position of the node, or of its
\* parent when that is a SubElement, one less in every number; the default
\* for an element without a node.
lsp_element_position(element) ==
    LET n == scene.node[element] IN
    IF ~n.some THEN DefaultDocumentPosition
    ELSE LET p == IF n.parent = "SubElement" THEN n.parent_pos ELSE n.pos IN
         [file |-> n.file,
          start |-> [line |-> SaturatingSub1(p.sl),
                     character |-> SaturatingSub1(p.sc)],
          end |-> [line |-> SaturatingSub1(p.el),
                   character |-> SaturatingSub1(p.ec)]]

\* show_document_request_from_element_callback without the test of the
\* range's end.
show_document_request_from_element_callback_StartOnly(file, range) ==
    IF file = "" \/ range.start.character = 0 THEN NoRequest
    ELSE IF file \in AbsoluteFiles
    THEN [some |-> TRUE, uri |-> file, selection |-> range]
    ELSE NoRequest

\* show_document_request_from_element_callback, lines 457-473: nothing for an
\* empty file or a zero column; nothing either when Url::from_file_path
\* fails, as it does for a path that is not absolute.
show_document_request_from_element_callback(file, range) ==
    IF file = "" \/ range.start.character = 0 \/ range.end.character = 0
    THEN NoRequest
    ELSE IF file \in AbsoluteFiles
    THEN [some |-> TRUE, uri |-> file, selection |-> range]
    ELSE NoRequest

\* element_offset, lines 170-177
element_offset(element) ==
    IF ~scene.node[element].some THEN NoOffset
    ELSE [some |-> TRUE, path |-> scene.node[element].file,
          offset |-> scene.node[element].range]

\* element_source_range, lines 179-186
element_source_range(element) ==
    IF ~scene.node[element].some THEN NoSourceRange
    ELSE [some |-> TRUE, file |-> scene.node[element].file,
          range |-> scene.node[element].range]

\* root_element, lines 189-211: the root of the component, or its only child
\* when that child has the root's source file and text range.
root_element ==
    LET root == "root"
        kids == scene.children[root] IN
    IF Len(kids) # 1 THEN root
    ELSE IF ~element_source_range(root).some THEN root
    ELSE IF ~element_source_range(kids[1]).some THEN root
    ELSE IF element_source_range(root) = element_source_range(kids[1])
    THEN kids[1]
    ELSE root

\* element_covers_point that never finds the point covered.
element_covers_point_Never(point, selected_element) == FALSE

\* element_covers_point, lines 121-134
element_covers_point(point, selected_element) ==
    IF ~element_position(selected_element).some THEN FALSE
    ELSE Contains(element_position(selected_element), point)

\* The loop of select_element_at_impl, lines 145-165, from the i-th child on:
\* the element it selects, None when it runs off the end.
RECURSIVE FirstHit(_, _, _)
FirstHit(children, i, point) ==
    IF i > Len(children) THEN None
    ELSE LET c == self_or_embedded_component_root(children[i]) IN
         IF ~element_position(c).some THEN FirstHit(children, i + 1, point)
         ELSE IF Contains(element_position(c), point) THEN c
         ELSE FirstHit(children, i + 1, point)

\* set_selected_element(Some((&c, position)), secondary_positions): the
\* selection and its overlay, the secondary positions being those the
\* instance gives for the element's offset.
set_selected_element(c) ==
    selected' = [element |-> c, position |-> element_position(c),
                 secondary |-> element_offset(c)]

\* ask_editor_to_show_document(file, range): the request the editor gets.
ask_editor_to_show_document(position) ==
    show_document_request_from_element_callback(
        position.file, [start |-> position.start, end |-> position.end])

\* select_element_at_impl(x, y, component_instance, root_element), lines
\* 137-168, called from `op`.
select_element_at_impl(op, point, root) ==
    LET c == FirstHit(scene.children[root], 1, point)
        document_position == IF c = None THEN DefaultDocumentPosition
                             ELSE lsp_element_position(c)
        asks == c # None /\ document_position.file # "" IN
    /\ IF c # None THEN set_selected_element(c) ELSE selected' = selected
    /\ last' = [op |-> op, point |-> point, before |-> selected,
                covered |-> FALSE, root |-> root, hit |-> c, asks |-> asks,
                request |-> IF asks
                            THEN ask_editor_to_show_document(document_position)
                            ELSE NoRequest]

\* A selection call that returns before select_element_at_impl.
SelectReturns(op, point, covered) ==
    /\ selected' = selected
    /\ last' = [op |-> op, point |-> point, before |-> selected,
                covered |-> covered, root |-> None, hit |-> None,
                asks |-> FALSE, request |-> NoRequest]

\* select_element_at(x, y), lines 214-229
select_element_at(point) ==
    /\ ~panicked
    /\ IF ~scene.instance
       THEN SelectReturns("select_element_at", point, FALSE)
       ELSE IF /\ selected # NoSelection
               /\ element_covers_point(point, selected.element)
       THEN SelectReturns("select_element_at", point, TRUE)
       ELSE select_element_at_impl("select_element_at", point, root_element)
    /\ UNCHANGED << cache_init, cacheVars, workers, calls, uiVars, scene,
                    panicked, read, hist >>

\* select_element_into(x, y), lines 232-243
select_element_into(point) ==
    /\ ~panicked
    /\ IF ~scene.instance \/ selected = NoSelection
       THEN SelectReturns("select_element_into", point, FALSE)
       ELSE select_element_at_impl("select_element_into", point,
                                   selected.element)
    /\ UNCHANGED << cache_init, cacheVars, workers, calls, uiVars, scene,
                    panicked, read, hist >>

\* ----------------------------------------------------------------- Next

\* The steps of the futures on the UI thread.
Worker ==
    \/ \E w \in Workers : WorkerTop(w)
    \/ \E w \in Workers : CompileBegin(w)
    \/ \E w \in Workers, p \in Paths : CompileRead(w, p)
    \/ \E w \in Workers, ok \in BOOLEAN : CompileFinish(w, ok)
    \/ \E w \in Workers : WorkerAfter(w)

\* The first request of Requests, for the specifications that preview one file.
MainRequest == [path |-> "a.ui", component |-> None, style |-> ""]

\* The reload state machine under every caller: requests for two previews,
\* an edit that inserts the main file, style and configuration changes, the
\* window shown and hidden.
Next ==
    \/ \E r \in Requests : load_preview(r)
    \/ \E c \in BagToSet(calls) : Reissue(c)
    \/ set_contents("a.ui", "X")
    \/ change_style
    \/ \E c \in Configs : config_changed(c)
    \/ HideUi
    \/ ShowUi
    \/ Worker

Spec == Init /\ [][Next]_vars

\* The source cache under edits: one preview, every edit of every file.
NextCache ==
    \/ load_preview(MainRequest)
    \/ \E c \in BagToSet(calls) : Reissue(c)
    \/ \E p \in Paths, t \in Texts : set_contents(p, t)
    \/ HideUi
    \/ ShowUi
    \/ Worker

SpecCache == Init /\ [][NextCache]_vars

\* The highlight bridge: every highlight call, beside one preview being
\* compiled.
NextHighlight ==
    \/ load_preview(MainRequest)
    \/ \E c \in BagToSet(calls) : Reissue(c)
    \/ \E p \in Paths \cup {None}, o \in Offsets : do_highlight(p, o)
    \/ FactoryInstantiate
    \/ ShowUi
    \/ Worker

SpecHighlight == Init /\ [][NextHighlight]_vars

\* The reload state machine with its scheduling: a future handed to
\* run_in_ui_thread is polled until it returns, the compiler answers, and a
\* caller that dropped the lock goes on to its load_preview.  The window and
\* the editor are under no obligation to act.  The callers that re-issue a
\* request are change_style and the window being shown; the edits of the
\* source cache are in SpecCache.
NextLive ==
    \/ \E r \in Requests : load_preview(r)
    \/ \E c \in BagToSet(calls) : Reissue(c)
    \/ change_style
    \/ HideUi
    \/ ShowUi
    \/ Worker

Fairness ==
    /\ WF_vars(Worker)
    /\ WF_vars(\E c \in BagToSet(calls) : Reissue(c))

LiveSpec == Init /\ [][NextLive]_vars /\ Fairness

\* The state once the preview window has been opened, before any request:
\* the cache exists and ui_is_visible is set.
InitVisible ==
    /\ cache_init = TRUE
    /\ source_code = [p \in Paths |-> None]
    /\ dependency = {}
    /\ current = DefaultComponent
    /\ config = DefaultConfig
    /\ loading_state = "Pending"
    /\ highlight = NoHighlight
    /\ ui_is_visible = TRUE
    /\ workers = [w \in Workers |-> Dead]
    /\ calls = EmptyBag
    /\ rendered = NoArtifact
    /\ status = [message |-> "", health |-> "Ok"]
    /\ show_preview_ui = None
    /\ current_style = ""
    /\ factory = FALSE
    /\ marks = NoHighlight
    /\ scene = NoScene
    /\ selected = NoSelection
    /\ panicked = FALSE
    /\ read = [p \in Paths |-> Unread]
    /\ hist = NoHistory
    /\ last = Quiet

\* The request slot under its writers, with the window open throughout: the
\* editor's load_preview calls, the three callers that copy `current`, drop
\* the lock and call load_preview with the copy, and the worker.
NextTarget ==
    \/ \E r \in Requests : load_preview(r)
    \/ \E c \in BagToSet(calls) : Reissue(c)
    \/ set_contents("a.ui", "X")
    \/ change_style
    \/ \E c \in Configs : config_changed(c)
    \/ Worker

SpecTarget == InitVisible /\ [][NextTarget]_vars

\* ------------------------------------------------- the selection engine

\* The state of the preview before any request, on the scene `sc`.
InitOn(sc) ==
    /\ cache_init = FALSE
    /\ source_code = [p \in Paths |-> None]
    /\ dependency = {}
    /\ current = DefaultComponent
    /\ config = DefaultConfig
    /\ loading_state = "Pending"
    /\ highlight = NoHighlight
    /\ ui_is_visible = FALSE
    /\ workers = [w \in Workers |-> Dead]
    /\ calls = EmptyBag
    /\ rendered = NoArtifact
    /\ status = [message |-> "", health |-> "Ok"]
    /\ show_preview_ui = None
    /\ current_style = ""
    /\ factory = FALSE
    /\ marks = NoHighlight
    /\ scene = sc
    /\ selected = NoSelection
    /\ panicked = FALSE
    /\ read = [p \in Paths |-> Unread]
    /\ hist = NoHistory
    /\ last = Quiet

\* The syntax nodes of the geometry scenes: e1 in the previewed file; e2
\* without a node; e3 the child of a SubElement; sub in a built-in file.
SceneNodes(root_range) ==
    [e \in Elements |->
        CASE e = "root" -> SyntaxNode("/w/a.ui", root_range, 1, 1, 9, 2,
                                      "Component", 1, 1)
          [] e = "e1" -> SyntaxNode("/w/a.ui", 10, 3, 2, 8, 2, "Component", 1, 1)
          [] e = "e2" -> NoNode
          [] e = "e3" -> SyntaxNode("/w/a.ui", 20, 5, 1, 6, 1, "SubElement", 2, 2)
          [] e = "sub" -> SyntaxNode("builtin:/button.slint", 30, 7, 2, 9, 2,
                                     "Component", 1, 1)]

\* Scenes that differ in their geometry: which elements have a position and
\* where, the order of the root's children, whether e2 is repeated and
\* whether its base type is a component, and whether the root is a wrapper
\* with the text range of e1.
GeometryScenes ==
    { [instance |-> TRUE,
       children |-> [e \in Elements |->
                        CASE e = "root" -> kids
                          [] e = "e1" -> << "e3" >>
                          [] OTHER -> << >>],
       repeated |-> [e \in Elements |-> e = "e2" /\ rep],
       base |-> [e \in Elements |-> IF e = "e2" THEN base ELSE None],
       geometry |-> [e \in Elements |->
                        CASE e = "e1" -> g1
                          [] e = "e2" -> g2
                          [] e = "e3" -> g3
                          [] e = "sub" -> gs
                          [] OTHER -> RectC],
       node |-> SceneNodes(root_range)] :
      kids \in { << "e1" >>, << "e1", "e2" >>, << "e2", "e1" >> },
      rep \in BOOLEAN, base \in {None, "sub"},
      g1 \in {NoPosition, RectA, RectB}, g2 \in {NoPosition, RectA, RectC},
      g3 \in {NoPosition, RectA}, gs \in {NoPosition, RectB},
      root_range \in {0, 10} }

InitSelect == \E sc \in GeometryScenes \cup {NoScene} : InitOn(sc)

NextSelect ==
    \/ \E point \in Points : select_element_at(point)
    \/ \E point \in Points : select_element_into(point)

SpecSelect == InitSelect /\ [][NextSelect]_vars

\* Scenes that differ in the syntax node of their elements: the file, the
\* columns of the node and of its parent, the parent's kind, or no node.
DocumentNodes ==
    { SyntaxNode(file, 10, 3, sc, 4, ec, parent, psc, pec) :
        file \in Files, sc \in Cols, ec \in Cols,
        parent \in {"SubElement", "Component"}, psc \in Cols, pec \in Cols }
    \cup {NoNode}

DocumentScenes ==
    { [instance |-> TRUE,
       children |-> [e \in Elements |->
                        CASE e = "root" -> << "e1" >>
                          [] e = "e1" -> << "e3" >>
                          [] OTHER -> << >>],
       repeated |-> [e \in Elements |-> FALSE],
       base |-> [e \in Elements |-> None],
       geometry |-> [e \in Elements |-> IF e = "e3" THEN RectB ELSE RectA],
       node |-> [e \in Elements |->
                    IF e = "root"
                    THEN SyntaxNode("/w/a.ui", 0, 1, 1, 9, 2, "Component", 1, 1)
                    ELSE n]] :
      n \in DocumentNodes }

InitDocument == \E sc \in DocumentScenes : InitOn(sc)

SpecDocument == InitDocument /\ [][NextSelect]_vars

\* ------------------------------------------------------------- properties

\* No compile is pending, scheduled or running, and no caller is on its way
\* to load_preview.
Quiescent ==
    /\ loading_state = "Pending"
    /\ AliveWorkers = {}
    /\ calls = EmptyBag

\* A worker is inside reload_preview_impl.
Compiling == \E w \in Workers : workers[w].pc \in {"start", "building"}

\* Every PreviewComponent a caller can pass to load_preview.
AllComponents == Requests \cup { [r EXCEPT !.style = ""] : r \in Requests }

\* C1: a compile that was marked stale before it completed (the state is
\* NeedsReload when the compiler answers) publishes nothing: the preview area
\* and the reported status stay as they were.
C1_StaleNeverPublished ==
    [][\A w \in Workers, ok \in BOOLEAN :
          (CompileFinish(w, ok) /\ loading_state = "NeedsReload")
              => (rendered' = rendered /\ status' = status)]_vars

\* C3: at most one worker future is alive, and so at most one invocation of
\* reload_preview_impl is in progress.
C3_OneCompileInFlight ==
    /\ Cardinality(AliveWorkers) <= 1
    /\ Cardinality({ w \in Workers :
                       workers[w].pc \in {"start", "building", "finished"} }) <= 1

\* C3: a compile is running, it has been marked stale by one caller, and
\* another caller is about to call load_preview.
C3_Witness ==
    /\ loading_state = "NeedsReload"
    /\ \E w \in Workers : workers[w].pc = "building"
    /\ calls # EmptyBag

\* The last request arrived while a compile was running.
ArrivedDuringCompile == hist.from \in {"Loading", "NeedsReload"}

\* C2 as stated: whenever the requests that arrived during a compile are the
\* last ones, exactly one compile has started after them once the machine is
\* at rest; the first of them found Loading and made it NeedsReload, the
\* others found NeedsReload and left it, and none enqueued a worker.
C2_Coalescing ==
    /\ (Quiescent /\ ArrivedDuringCompile) => hist.starts = 1
    /\ (last.op = "load_preview" /\ ArrivedDuringCompile)
           => /\ loading_state = "NeedsReload"
              /\ Cardinality(AliveWorkers) = 1

\* C2, amended: the same, for requests that arrive while the preview UI is
\* visible and with the UI visible until the machine is at rest.
C2_CoalescingVisible ==
    /\ hist.starts <= 1
    /\ (Quiescent /\ ArrivedDuringCompile /\ ~hist.hidden) => hist.starts = 1
    /\ (last.op = "load_preview" /\ ArrivedDuringCompile /\ last.visible)
           => /\ loading_state = "NeedsReload"
              /\ Cardinality(AliveWorkers) = 1

\* C2: the machine is at rest, the last request found the running compile
\* already marked stale (it was at least the second to arrive during that
\* compile), and one compile has started since.
C2_Witness ==
    /\ Quiescent
    /\ hist.from = "NeedsReload"
    /\ ~hist.hidden
    /\ hist.starts = 1

\* C8: a load_preview call made while the preview UI is not visible stores
\* its request in `current` and changes nothing else of the cache, the workers
\* or the UI; and a worker enters a compile only while the UI is visible.
C8_HiddenAbsorbs ==
    [][/\ \A r \in AllComponents :
             ((load_preview(r) \/ Reissue(r)) /\ ~ui_is_visible)
                 => /\ current' = r
                    /\ UNCHANGED << source_code, dependency, config, loading_state,
                                    highlight, ui_is_visible, workers, uiVars,
                                    panicked, read >>
       /\ (\E w \in Workers : workers[w].pc # "start" /\ workers'[w].pc = "start")
             => (ui_is_visible /\ loading_state = "PreLoading")]_vars

\* C8: a request for another preview has just been absorbed while the UI is
\* hidden and a compile is running: it is in `current`, and the state is
\* still Loading.
C8_Witness ==
    /\ last.op = "load_preview"
    /\ ~last.visible
    /\ ~ui_is_visible
    /\ current = hist.latest
    /\ current.path # hist.snapshot.path
    /\ hist.from = "Loading"
    /\ loading_state = "Loading"
    /\ Cardinality(AliveWorkers) = 1

\* C9: a compile that produces no component leaves the preview area as it
\* was and reports health Error; the preview area changes only when a compile
\* succeeds; and the worker that comes back from a failed compile puts the
\* state machine back to Pending or PreLoading.
C9_FailureKeepsPreview ==
    [][/\ \A w \in Workers :
             CompileFinish(w, FALSE)
                 => (rendered' = rendered /\ status'.health = "Error")
       /\ (rendered' # rendered) => \E w \in Workers : CompileFinish(w, TRUE)
       /\ \A w \in Workers :
             (WorkerAfter(w) /\ status.health = "Error")
                 => (loading_state' \in {"Pending", "PreLoading"} /\ ~panicked')]_vars

\* C9: a compile has just failed while an earlier artifact is on screen.
C9_Witness ==
    /\ last.op = "compile_finish"
    /\ ~last.ok
    /\ rendered # NoArtifact
    /\ status.health = "Error"

\* C6: set_contents on a path that is not in the dependency set updates the
\* path's text and nothing else: the loading state, the workers, the callers
\* on their way to load_preview, the dependencies and the request all stay.
C6_NonDependencyNoReload ==
    [][\A p \in Paths, t \in Texts :
          (set_contents(p, t) /\ p \notin dependency)
              => /\ source_code' = [source_code EXCEPT ![p] = t]
                 /\ UNCHANGED << dependency, current, config, loading_state,
                                 highlight, ui_is_visible, workers, calls, uiVars,
                                 panicked, read, hist >>]_vars

\* C6: the text of a path outside the dependency set has just been changed,
\* with the UI visible, a preview requested and its compile done.
C6_Witness ==
    /\ last.op = "set_contents"
    /\ ~last.dep
    /\ last.changed
    /\ ui_is_visible
    /\ current.path # NoPath
    /\ dependency # {}
    /\ source_code[last.path] \in Texts
    /\ Quiescent

\* C7 as stated: on a dependency whose cached text is X, set_contents with X
\* issues no reload and set_contents with another text issues exactly one.
C7_ChangedContentReloads ==
    [][\A p \in Paths, t \in Texts :
          (set_contents(p, t) /\ p \in dependency /\ source_code[p] \in Texts)
              => IF t = source_code[p]
                 THEN UNCHANGED << calls, loading_state, workers >>
                 ELSE calls' = calls (+) SetToBag({current})]_vars

\* C7, amended: the same while the preview UI is visible; and the reload
\* request ends in exactly one compile when the UI stays visible: at rest,
\* one compile has started since the last request.
C7_ChangedContentReloadsVisible ==
    /\ [][\A p \in Paths, t \in Texts :
            (set_contents(p, t) /\ p \in dependency /\ source_code[p] \in Texts)
                => IF t = source_code[p]
                   THEN UNCHANGED << calls, loading_state, workers >>
                   ELSE IF ui_is_visible
                   THEN calls' = calls (+) SetToBag({current})
                   ELSE UNCHANGED << calls, loading_state, workers >>]_vars
    /\ []((Quiescent /\ ~hist.hidden) => hist.starts = 1)

\* C7: a dependency's text has just been replaced by a different one, and the
\* caller holds the request it is about to pass to load_preview.
C7_Witness ==
    /\ last.op = "set_contents"
    /\ last.dep
    /\ last.changed
    /\ last.reload
    /\ read[last.path] \in Texts
    /\ BagIn(current, calls)

\* C10: when highlight(p, o) is called right after highlight(p, o), the second
\* call changes nothing, neither the stored highlight nor anything else; and
\* a call that finds its own arguments stored, as the second of two identical
\* calls does, never reaches update_highlight.
C10_HighlightIdempotent ==
    /\ [][\A p \in Paths \cup {None}, o \in Offsets :
            (/\ last.op = "highlight"
             /\ last.path = p
             /\ last.offset = o
             /\ do_highlight(p, o))
                => /\ last'.repeat
                   /\ highlight' = highlight
                   /\ UNCHANGED << source_code, dependency, current, config,
                                   loading_state, ui_is_visible, workers, calls,
                                   uiVars, panicked, read, hist >>]_vars
    /\ []((last.op = "highlight" /\ last.repeat)
            => (~last.marked /\ highlight = HighlightOf(last.path, last.offset)))

\* C10: highlight has just been called with the highlight already stored, on
\* a path that is a dependency (a first call would have marked it), and did
\* not reach update_highlight.
C10_Witness ==
    /\ last.op = "highlight"
    /\ last.repeat
    /\ last.path \in dependency
    /\ ~last.marked
    /\ highlight = HighlightOf(last.path, last.offset)

\* C11: once the instance of a successful compile has been created while a
\* highlight (p, o) is stored and p is a dependency of the compile, the
\* rendering layer has been asked to mark (p, o): a highlight stored while p
\* was no dependency, and so not marked then, is marked now.
C11_PendingHighlightReapplied ==
    (/\ last.op = "instantiate"
     /\ highlight # NoHighlight
     /\ highlight.path \in dependency
     /\ read[highlight.path] # Unread)
        => marks = highlight

\* The paths the compile in progress, or the last one, has looked up.
PathsRead == { p \in Paths : read[p] # Unread }

\* C16: the dependency set changes in two ways only: it is emptied by the
\* step that takes the state from PreLoading to Loading, which every compile
\* attempt starts with and which comes before any of its lookups, and it
\* grows by the one path a lookup of the running compile asks for.  So the
\* set holds exactly the paths the compile has read, also once the compile
\* has completed; and set_contents on a path the last compile did not read,
\* whatever an earlier one read, issues no reload.
C16_DependenciesOfThisCompile ==
    /\ [][/\ (dependency' # dependency) =>
               \/ /\ loading_state = "PreLoading"
                  /\ loading_state' = "Loading"
                  /\ dependency' = {}
                  /\ read' = NoReads
               \/ \E p \in Paths :
                     /\ Compiling
                     /\ read[p] = Unread
                     /\ read'[p] # Unread
                     /\ dependency' = dependency \cup {p}
          /\ (loading_state # "Loading" /\ loading_state' = "Loading")
                 => dependency' = {}
          /\ \A p \in Paths, t \in Texts :
                 (set_contents(p, t) /\ read[p] = Unread)
                     => UNCHANGED << calls, loading_state, workers >>]_vars
    /\ [](dependency = PathsRead)

\* C16: a compile attempt has just started and dropped b.ui, which an earlier
\* compile had read, from the dependency set.
C16_Witness ==
    /\ last.op = "compile_start"
    /\ "b.ui" \in last.dropped
    /\ dependency = {}
    /\ loading_state = "Loading"

\* C17 as stated: a path whose lookup missed is in the dependency set, and a
\* set_contents that inserts such a path into the cache issues a reload.
C17_MissTracked ==
    /\ [](\A p \in Paths : read[p] = Miss => p \in dependency)
    /\ [][\A p \in Paths, t \in Texts :
            (set_contents(p, t) /\ read[p] = Miss /\ source_code[p] = None)
                => calls' = calls (+) SetToBag({current})]_vars

\* C17, amended: the same, the reload being issued when the preview UI is
\* visible and nothing happening when it is not.
C17_MissTrackedVisible ==
    /\ [](\A p \in Paths : read[p] = Miss => p \in dependency)
    /\ [][\A p \in Paths, t \in Texts :
            (set_contents(p, t) /\ read[p] = Miss /\ source_code[p] = None)
                => IF ui_is_visible
                   THEN calls' = calls (+) SetToBag({current})
                   ELSE UNCHANGED << calls, loading_state, workers >>]_vars

\* C17: the compile looked b.ui up and missed; b.ui has just been inserted
\* into the cache for the first time, and the caller holds the request it is
\* about to pass to load_preview.
C17_Witness ==
    /\ last.op = "set_contents"
    /\ last.path = "b.ui"
    /\ last.first
    /\ last.reload
    /\ read["b.ui"] = Miss
    /\ source_code["b.ui"] \in Texts
    /\ BagIn(current, calls)

\* C18: a highlight(p, o) call that changes the stored highlight stores
\* (p, o), and reaches update_highlight if p is a dependency and not
\* otherwise: the mark the rendering layer was last asked for becomes (p, o)
\* in the first case and stays in the second.
C18_MarksOnlyDependencies ==
    /\ [][\A p \in Paths, o \in Offsets :
            (do_highlight(p, o) /\ highlight # HighlightOf(p, o))
                => /\ highlight' = HighlightOf(p, o)
                   /\ IF p \in dependency
                      THEN marks' = HighlightOf(p, o)
                      ELSE marks' = marks]_vars
    /\ []((last.op = "highlight" /\ ~last.repeat /\ last.path # None)
            => (last.marked <=> last.path \in dependency))

\* C18: a highlight on a path that is not among the dependencies of the
\* compile has just been stored, and the rendering layer was not asked.
C18_Witness ==
    /\ last.op = "highlight"
    /\ ~last.repeat
    /\ last.path \in Paths \ dependency
    /\ dependency # {}
    /\ ~last.marked
    /\ highlight = HighlightOf(last.path, last.offset)
    /\ marks # highlight

\* C19: no assertion of the worker has fired, and none is about to: a worker
\* at the top of its loop finds the state PreLoading, and a worker inside or
\* back from reload_preview_impl finds it Loading or NeedsReload.
C19_WorkerAssertionsHold ==
    /\ ~panicked
    /\ \A w \in Workers :
          /\ workers[w].pc = "queued" => loading_state = "PreLoading"
          /\ workers[w].pc \in {"start", "building", "finished"}
                => loading_state \in {"Loading", "NeedsReload"}

\* C19: a worker is back from a compile that was marked stale, the UI has
\* been hidden meanwhile and a caller is still on its way to load_preview.
C19_Witness ==
    /\ \E w \in Workers : workers[w].pc = "finished"
    /\ loading_state = "NeedsReload"
    /\ ~ui_is_visible
    /\ calls # EmptyBag
    /\ config # DefaultConfig

\* C20: when the machine is at rest and the UI has been visible since the
\* last request, every dependency that is in the cache was read by the last
\* compile with the text the cache holds now.
C20_NoEditLost ==
    (Quiescent /\ ~hist.hidden)
        => \A p \in dependency :
               source_code[p] # None => read[p] = source_code[p]

\* C20: the machine is at rest after a reload that was asked for during a
\* compile; both files are dependencies, the last compile read the second
\* text of each, and an earlier compile's artifact of the first text of the
\* main file is still on screen.
C20_Witness ==
    /\ Quiescent
    /\ ~hist.hidden
    /\ hist.from = "Loading"
    /\ dependency = Paths
    /\ \A p \in Paths : read[p] = "Y" /\ source_code[p] = "Y"
    /\ rendered.text = "X"

\* C21: the load_preview call that set_contents, config_changed or
\* change_style makes with its copy of `current` leaves the path and the
\* component of `current` as they are.  The editor's load_preview calls being
\* the only other writers of these two fields (the worker clears the style
\* alone), this is what keeps them equal to those of the editor's most recent
\* request.
C21_ReissueKeepsTarget ==
    [][\A c \in AllComponents :
          Reissue(c)
              => /\ current'.path = current.path
                 /\ current'.component = current.component]_vars

\* The element a child of the scene stands for in hit-testing: the root
\* element of its sub-component when the child is repeated and has one.
Resolved(child) ==
    IF scene.repeated[child] /\ scene.base[child] # None
    THEN scene.base[child]
    ELSE child

\* The element has a geometry, and the point is inside it.
Inside(element, point) ==
    LET g == scene.geometry[element] IN
    /\ g.some
    /\ g.x <= point[1] /\ point[1] < g.x + g.w
    /\ g.y <= point[2] /\ point[2] < g.y + g.h

\* The last step was a selection call that went through the children of
\* last.root.
Searched ==
    /\ last.op \in {"select_element_at", "select_element_into"}
    /\ last.root # None

\* C12: for a scene and a point, select_element_at_impl returns the first
\* direct child in document order that, once a repeated sub-component child
\* is replaced by the sub-component's root, has a geometry containing the
\* point, and selects it; it returns None exactly when there is no such child.
C12_FirstChildInDocumentOrder ==
    Searched =>
        LET kids == scene.children[last.root]
            hits == { i \in 1..Len(kids) : Inside(Resolved(kids[i]), last.point) }
        IN IF hits = {}
           THEN last.hit = None
           ELSE /\ last.hit = Resolved(kids[MinOf(hits)])
                /\ selected.element = last.hit

\* C12: the point is inside two overlapping children; the first of them in
\* document order is a repeated sub-component, whose root was selected,
\* although the child itself has no geometry at the point.
C12_Witness ==
    /\ last.op = "select_element_at"
    /\ last.root = "root"
    /\ scene.children["root"] = << "e2", "e1" >>
    /\ last.hit = "sub"
    /\ selected.element = "sub"
    /\ ~Inside("e2", last.point)
    /\ Inside("e1", last.point)

\* C13: a selection call whose point hits no child selects nothing: as
\* select_element_into it leaves the selection as it was, as select_element_at
\* it leaves no selection.
C13_MissSelectsNothing ==
    /\ (Searched /\ last.op = "select_element_into" /\ last.hit = None)
           => selected = last.before
    /\ (Searched /\ last.op = "select_element_at" /\ last.hit = None)
           => selected = NoSelection

\* C14: select_element_at with a point inside the geometry of the selected
\* element does not go through the children, asks the editor for nothing and
\* leaves the selection and its overlay as they were; and the click that
\* follows a click at the same point never asks the editor for anything.
C14_CoversShortCircuit ==
    /\ []((/\ last.op = "select_element_at"
           /\ scene.instance
           /\ last.before # NoSelection
           /\ Inside(last.before.element, last.point))
              => (/\ last.covered
                  /\ last.root = None
                  /\ ~last.asks
                  /\ ~last.request.some
                  /\ selected = last.before))
    /\ [][\A point \in Points :
            (/\ last.op = "select_element_at"
             /\ last.point = point
             /\ select_element_at(point))
                => (~last'.asks /\ selected' = selected)]_vars

\* C14: a click inside the selected element e3, which was selected by
\* drilling into e1, has just been short-circuited; without the covers check
\* the click would have selected another element and asked the editor to
\* show it.
C14_Witness ==
    /\ last.op = "select_element_at"
    /\ last.covered
    /\ selected.element = "e3"
    /\ FirstHit(scene.children[root_element], 1, last.point) \notin {None, "e3"}
    /\ lsp_element_position(
           FirstHit(scene.children[root_element], 1, last.point)).file # ""

\* The request built from the document range of the selected element.
SelectedRequest ==
    LET document_position == lsp_element_position(selected.element) IN
    show_document_request_from_element_callback(
        document_position.file,
        [start |-> document_position.start, end |-> document_position.end])

\* Both columns of the document range of the selected element are non-zero.
SelectedColumnsNonZero ==
    /\ lsp_element_position(selected.element).start.character # 0
    /\ lsp_element_position(selected.element).end.character # 0

\* C15 as stated: for every selected element, the request built from its
\* document range is not suppressed if and only if the start column and the
\* end column of the range are both non-zero.
C15_RoundTrip ==
    selected # NoSelection => (SelectedRequest.some <=> SelectedColumnsNonZero)

\* C15, amended: the request is not suppressed if and only if the file of the
\* range is an absolute path (not empty, and one Url::from_file_path takes)
\* and both columns are non-zero, a column of the range being non-zero when
\* the column reported for the node, or for its SubElement parent, is 2 or
\* more; the request then carries the file and the range; and it is the
\* request the editor was asked to show when the element was selected.
C15_RoundTripAbsoluteFile ==
    /\ selected # NoSelection =>
          LET n == scene.node[selected.element]
              p == IF n.parent = "SubElement" THEN n.parent_pos ELSE n.pos
              r == lsp_element_position(selected.element)
          IN /\ SelectedRequest.some
                    <=> (/\ r.file \in AbsoluteFiles
                         /\ SelectedColumnsNonZero)
             /\ SelectedColumnsNonZero <=> (n.some /\ p.sc >= 2 /\ p.ec >= 2)
             /\ SelectedRequest.some
                    => (/\ SelectedRequest.uri = n.file
                        /\ SelectedRequest.selection.start.character = p.sc - 1
                        /\ SelectedRequest.selection.end.character = p.ec - 1)
    /\ (Searched /\ last.hit # None) => last.request = SelectedRequest

\* C15: an element was selected whose own node starts in column 0 and whose
\* parent is a SubElement with non-zero columns: the editor was asked to
\* show the parent's range.
C15_Witness ==
    /\ Searched
    /\ last.hit # None
    /\ last.hit = selected.element
    /\ scene.node[last.hit].parent = "SubElement"
    /\ scene.node[last.hit].pos.sc = 0
    /\ last.request.some
    /\ last.request.selection.start.character = 1

\* A step that is a call of load_preview, by the editor or by a caller that
\* re-issues the request it copied.
Request ==
    \/ \E r \in Requests : load_preview(r)
    \/ \E c \in AllComponents : Reissue(c)

\* C4: if from some point on no load_preview call arrives, and the UI was
\* visible at the last one and stays visible, then from some point on the
\* state is Pending, exactly one compile has started since the last request,
\* and that compile started from a snapshot equal to the last request.
C4_Convergence ==
    (<>[][~Request]_vars /\ <>[](~hist.hidden))
        => <>[](/\ loading_state = "Pending"
                /\ hist.starts = 1
                /\ hist.snapshot = hist.latest)

\* C4: the machine is at rest after a request with a style that arrived
\* during the compile of another preview: the last compile started from that
\* request, whose style the worker has since cleared in `current`.
C4_Witness ==
    /\ Quiescent
    /\ ~hist.hidden
    /\ hist.from \in {"Loading", "NeedsReload"}
    /\ hist.starts = 1
    /\ hist.snapshot = hist.latest
    /\ hist.latest.style # ""
    /\ current # hist.latest
    /\ rendered.path = hist.latest.path

\* C5 as stated: after every load_preview call a compile eventually starts
\* (the worker takes its snapshot after the call stored its request), and
\* every compile that starts runs to completion.
C5_EveryRequestServed ==
    /\ (hist.latest # DefaultComponent /\ hist.starts = 0) ~> (hist.starts >= 1)
    /\ Compiling ~> ~Compiling

\* C5, amended: the same for a load_preview call that arrives while the UI is
\* visible, unless the UI is hidden before the compile starts.
C5_EveryVisibleRequestServed ==
    /\ (~hist.hidden /\ hist.starts = 0) ~> (hist.starts >= 1 \/ hist.hidden)
    /\ Compiling ~> ~Compiling

\* C5: a request arrived during a compile with the UI visible, and the
\* compile that started after it, from that request, has come back.
C5_Witness ==
    /\ ~hist.hidden
    /\ hist.from = "Loading"
    /\ hist.starts = 1
    /\ hist.snapshot = hist.latest
    /\ \E w \in Workers : workers[w].pc = "finished"
====
